---- MODULE Spec2Model ----
(***************************************************************************)
(* Model of src/interface/composables/use-sync-relation-nodes.ts:         *)
(* the reconciliation of the relation-block nodes of an editor's document *)
(* with the shared M2A store and the M2A relation collection.             *)
(*                                                                         *)
(* Identities are numbers.  1..NumBase are the identities of the items the *)
(* store holds before any pass; duplicateItem mints NumBase+1, NumBase+2,  *)
(* ... (a fresh uuid each time); 0, -1, ... are identities for which the   *)
(* store never holds an item.                                              *)
(* A document is the sequence of the identities of its                     *)
(* relation-block nodes in document order; a node's position is its index *)
(* in that sequence (setNodeMarkup does not move nodes).                   *)
(*                                                                         *)
(* JavaScript objects are modelled by what a property read returns: every *)
(* key is present and a key that was never written reads Undefined.       *)
(***************************************************************************)
EXTENDS Integers, Sequences, FiniteSets, TLC

\* ------------------------------------------------------------- bounds
NumBase == 1
NumOrphan == 1
MaxFresh == 2
\* Nodes in all documents together (Spec).
MaxNodes == 2
\* Nodes in the one document of SpecSolo.
MaxSolo == 3
\* Seedings of the store after which no further call is looked at (SpecLoad).
MaxInits == 2

Fields == {"F1", "F2"}
NoField == "none"
Undefined == "undefined"

BaseIds == 1..NumBase
OrphanIds == (1 - NumOrphan)..0
\* The identities a node may carry.
Ids == (1 - NumOrphan)..(NumBase + MaxFresh)
\* With room for the identities a pass may mint before the bound stops it.
LongestDoc == IF MaxSolo > MaxNodes THEN MaxSolo ELSE MaxNodes
IdSpace == (1 - NumOrphan)..(NumBase + MaxFresh + LongestDoc)

\* ------------------------------------------------------------- values
\* storeItem.edits: undefined, or an object of pending edits.
NoEdits == [defined |-> FALSE, a |-> Undefined, type |-> Undefined,
            index |-> Undefined, edits |-> Undefined]
PendingA == [defined |-> TRUE, a |-> "1", type |-> Undefined,
             index |-> Undefined, edits |-> Undefined]
EditsOpts == {NoEdits, PendingA}

\* What findDisplayItem returns: undefined, or a display item.
NoRecord == [found |-> FALSE, type |-> Undefined, index |-> Undefined,
             edits |-> Undefined]
RecX2 == [found |-> TRUE, type |-> "X", index |-> "2", edits |-> Undefined]
RecY1 == [found |-> TRUE, type |-> "Y", index |-> "1", edits |-> "e"]
DisplayOpts == {NoRecord, RecX2, RecY1}

\* An identity without a store item.
Absent == [exists |-> FALSE, active |-> FALSE, isNew |-> FALSE,
           field |-> NoField, edits |-> NoEdits, item |-> 0]

M2AStoreItem(id) ==
    {[exists |-> TRUE, active |-> a, isNew |-> n, field |-> f, edits |-> e,
      item |-> id] : a \in BOOLEAN, n \in BOOLEAN, f \in Fields, e \in EditsOpts}

\* A call made on the store or on the relation collection, in the order made.
\* node is the index of the node being handled (0: removal reconciliation).
Call(op, node, id, field, item, edits, found, ids) ==
    [op |-> op, node |-> node, id |-> id, field |-> field, item |-> item,
     edits |-> edits, found |-> found, ids |-> ids]

StoreMutators == {"deactivateUnusedItems", "activateItem", "duplicateItem",
                  "setField"}
CollectionCalls == {"create", "update", "remove", "deleteItem"}

\* ------------------------------------------------------------ helpers
RECURSIVE SetToSeq(_)
SetToSeq(S) ==
    IF S = {} THEN <<>>
    ELSE LET m == CHOOSE x \in S : \A y \in S : x <= y
         IN <<m>> \o SetToSeq(S \ {m})

Range(q) == {q[i] : i \in 1..Len(q)}

RECURSIVE NodeCount(_, _)
NodeCount(docs, fs) ==
    IF fs = {} THEN 0
    ELSE LET f == CHOOSE x \in fs : TRUE
         IN Len(docs[f]) + NodeCount(docs, fs \ {f})

\* ------------------------------------------------- the shared M2A store
\* (use-m2a-store.ts; the composable only calls it)
itemExists(store, nodeId) == store[nodeId].exists

itemIsActive(store, nodeId) == store[nodeId].active

itemIsNew(store, nodeId) == store[nodeId].isNew

itemFromDifferentEditor(store, nodeId, editorField) ==
    store[nodeId].field # editorField

getItem(store, nodeId) == store[nodeId]

activateItem(store, nodeId) == [store EXCEPT ![nodeId].active = TRUE]

setField(store, nodeId, editorField) ==
    [store EXCEPT ![nodeId].field = editorField]

\* A copy of the item's data under the fresh identity newId: new, active,
\* owned by the field that owns the original.
duplicateItem(store, nodeId, newId) ==
    [store EXCEPT ![newId] =
        [exists |-> TRUE, active |-> TRUE, isNew |-> TRUE,
         field |-> store[nodeId].field, edits |-> NoEdits,
         item |-> store[nodeId].item]]

\* The identities deactivateUnusedItems drops: active, owned by editorField,
\* and carried by no node.
unusedItems(store, existingNodeIds, editorField) ==
    {id \in IdSpace : /\ store[id].exists
                      /\ store[id].active
                      /\ store[id].field = editorField
                      /\ id \notin Range(existingNodeIds)}

deactivateUnusedItems(store, existingNodeIds, editorField) ==
    [id \in IdSpace |->
        IF id \in unusedItems(store, existingNodeIds, editorField)
        THEN [store[id] EXCEPT !.active = FALSE]
        ELSE store[id]]

\* initialized(items): whether the store was seeded already.
initialized(seededAlready, fetchedItems) == seededAlready

\* init(items, keyField): an entry for every fetched item: persisted, live,
\* claimed by no field yet.
init(store, fetchedItems) ==
    [id \in IdSpace |->
        IF id \in fetchedItems
        THEN [exists |-> TRUE, active |-> TRUE, isNew |-> FALSE,
              field |-> NoField, edits |-> NoEdits, item |-> id]
        ELSE store[id]]

\* setEditorFields(identities, field): the items of these identities are
\* owned by the field.
setEditorFields(store, editorNodeIds, editorField) ==
    [id \in IdSpace |->
        IF id \in Range(editorNodeIds) /\ store[id].exists
        THEN [store[id] EXCEPT !.field = editorField]
        ELSE store[id]]

\* ------------------------------------------- the relation collection
\* m2aRelation.findDisplayItem: the collection's answer, an input of the pass.
findDisplayItem(disp, nodeId) ==
    IF nodeId \in DOMAIN disp THEN disp[nodeId] ELSE NoRecord

\* ------------------------------------------------ the state of one pass
\* store    the shared store
\* doc      the editor's document (the identities of its relation blocks)
\* nodes    the node objects the pass holds (editorNodes), by position
\* memory   _nodeIdMemory().nodeIds
\* calls    the store mutations and collection calls made so far
\* patches  the transactions dispatched so far
\* minted   how many fresh identities duplicateItem has handed out
\* scans    how many times the document was traversed
\* undo     how many dispatched transactions entered the undo history
\* updates  how many dispatched transactions made the editor emit "update"
\*          (each one would start syncRelationNodes again)
PassStart(store, docOfField, minted) ==
    [store |-> store, doc |-> docOfField, nodes |-> <<>>, memory |-> <<>>,
     calls |-> <<>>, patches |-> <<>>, minted |-> minted, scans |-> 0,
     undo |-> 0, updates |-> 0]

Log(s, c) == [s EXCEPT !.calls = Append(@, c)]

\* ------------------------------------------------- _nodeIdMemory
\* Mutant: indexOf(nodeId) <= 0 instead of < 0.
nodeIdUniqueInEditor_offByOne(nodeIds, nodeId) ==
    \A i \in 2..Len(nodeIds) : nodeIds[i] # nodeId

nodeIdUniqueInEditor(nodeIds, nodeId) == nodeId \notin Range(nodeIds)

replaceLastItem(nodeIds, nodeId) ==
    [nodeIds EXCEPT ![Len(nodeIds)] = nodeId]

\* ------------------------------------------------- _getExistingEditorNodes
_getExistingEditorNodes(s) ==
    [s EXCEPT !.nodes = s.doc, !.scans = @ + 1]

\* ------------------------------------------------- _updateNodeAttrs
\* The transaction is dispatched with the two metas set; the editor applies
\* it to the document, records it in the undo history unless addToHistory is
\* false, and emits "update" unless preventUpdate is true.  Then node.attrs
\* is overwritten on the object the pass holds.
\* Mutant: the preventUpdate meta is not set on the transaction.
_updateNodeAttrs_emitsUpdate(s, pos, nodeId) ==
    LET tr == [pos |-> pos, id |-> nodeId, addToHistory |-> FALSE,
               preventUpdate |-> FALSE]
    IN [s EXCEPT !.doc[pos] = tr.id,
                 !.patches = Append(@, tr),
                 !.undo = IF tr.addToHistory THEN @ + 1 ELSE @,
                 !.updates = IF tr.preventUpdate THEN @ ELSE @ + 1,
                 !.nodes[pos] = nodeId]

_updateNodeAttrs(s, pos, nodeId) ==
    LET tr == [pos |-> pos, id |-> nodeId, addToHistory |-> FALSE,
               preventUpdate |-> TRUE]
    IN [s EXCEPT !.doc[pos] = tr.id,
                 !.patches = Append(@, tr),
                 !.undo = IF tr.addToHistory THEN @ + 1 ELSE @,
                 !.updates = IF tr.preventUpdate THEN @ ELSE @ + 1,
                 !.nodes[pos] = nodeId]

_refreshEditorNodeId(s, nodeId, pos) == _updateNodeAttrs(s, pos, nodeId)

\* ------------------------------------------------- _mergeUpdatedValues
\* Mutant: the pending edits are not spread into the merged object.
_mergeUpdatedValues_overwrite(edits, item) ==
    IF ~item.found THEN edits
    ELSE [defined |-> TRUE, a |-> Undefined, type |-> item.type,
          index |-> item.index, edits |-> item.edits]

_mergeUpdatedValues(edits, item) ==
    IF ~item.found THEN edits
    ELSE [edits EXCEPT !.type = item.type, !.index = item.index,
                       !.edits = item.edits]

\* ------------------------------------------------- _reactivateRelatedItem
\* remove is called with whatever findDisplayItem returned.
_reactivateRelatedItem(s, pos, nodeId, disp) ==
    Log(s, Call("remove", pos, nodeId, NoField, 0, NoEdits,
                findDisplayItem(disp, nodeId).found, <<>>))

\* ------------------------------------------------- syncRemovedNodes
\* Mutant: deleteItem is called without looking at what findDisplayItem found.
RECURSIVE _removeRelatedItems_unguarded(_, _, _)
_removeRelatedItems_unguarded(s, nodeIds, disp) ==
    IF nodeIds = <<>> THEN s
    ELSE _removeRelatedItems_unguarded(
             Log(s, Call("deleteItem", 0, Head(nodeIds), NoField, 0, NoEdits,
                         findDisplayItem(disp, Head(nodeIds)).found, <<>>)),
             Tail(nodeIds), disp)

RECURSIVE _removeRelatedItems(_, _, _)
_removeRelatedItems(s, nodeIds, disp) ==
    IF nodeIds = <<>> THEN s
    ELSE LET nodeId == Head(nodeIds)
             relatedItem == findDisplayItem(disp, nodeId)
             s1 == IF ~relatedItem.found THEN s
                   ELSE Log(s, Call("deleteItem", 0, nodeId, NoField, 0,
                                    NoEdits, TRUE, <<>>))
         IN _removeRelatedItems(s1, Tail(nodeIds), disp)

syncRemovedNodes(s, editorField, disp) ==
    LET existingNodeIds == s.nodes
        inactiveNodeIds ==
            SetToSeq(unusedItems(s.store, existingNodeIds, editorField))
        s1 == [s EXCEPT !.store =
                 deactivateUnusedItems(s.store, existingNodeIds, editorField)]
        s2 == Log(s1, Call("deactivateUnusedItems", 0, 0, editorField, 0,
                           NoEdits, FALSE, existingNodeIds))
    IN _removeRelatedItems(s2, inactiveNodeIds, disp)

\* ------------------------------------------------- syncInsertedNodes
\* Mutant: the uniqueness of the identity in the editor is not looked at.
nothingChanged_ignoresRepeat(storeItemIsActive, nodeIdIsUnique, nodeFromDifferentEditor) ==
    storeItemIsActive /\ ~nodeFromDifferentEditor

\* Mutant: the negation of nodeFromDifferentEditor is lost.
nothingChanged_otherEditor(storeItemIsActive, nodeIdIsUnique, nodeFromDifferentEditor) ==
    storeItemIsActive /\ nodeIdIsUnique /\ nodeFromDifferentEditor

\* Mutant: only the activity of the item is looked at.
nothingChanged_activeOnly(storeItemIsActive, nodeIdIsUnique, nodeFromDifferentEditor) ==
    storeItemIsActive

\* Line 73: nothing changed, or a new node, or a dragged and dropped one.
nothingChanged(storeItemIsActive, nodeIdIsUnique, nodeFromDifferentEditor) ==
    storeItemIsActive /\ nodeIdIsUnique /\ ~nodeFromDifferentEditor

\* Mutant: nodeId is not reassigned to the duplicate's identity.
duplicateOrActivate_keepsNodeId(s, pos, nodeId, storeItemIsActive) ==
    IF storeItemIsActive
    THEN LET newId == NumBase + s.minted + 1
             s1 == [s EXCEPT !.store = duplicateItem(s.store, nodeId, newId),
                             !.minted = @ + 1]
             s2 == Log(s1, Call("duplicateItem", pos, nodeId, NoField, 0,
                                NoEdits, FALSE, <<newId>>))
             s3 == _refreshEditorNodeId(s2, newId, pos)
         IN [st |-> [s3 EXCEPT !.memory = replaceLastItem(s3.memory, newId)],
             cur |-> nodeId]
    ELSE LET s1 == [s EXCEPT !.store = activateItem(s.store, nodeId)]
         IN [st |-> Log(s1, Call("activateItem", pos, nodeId, NoField, 0,
                                 NoEdits, FALSE, <<>>)),
             cur |-> nodeId]

\* Lines 76-82: an active item is duplicated and the node re-identified, an
\* inactive one is activated.  The result's cur is the value of nodeId after.
duplicateOrActivate(s, pos, nodeId, storeItemIsActive) ==
    IF storeItemIsActive
    THEN LET newId == NumBase + s.minted + 1
             s1 == [s EXCEPT !.store = duplicateItem(s.store, nodeId, newId),
                             !.minted = @ + 1]
             s2 == Log(s1, Call("duplicateItem", pos, nodeId, NoField, 0,
                                NoEdits, FALSE, <<newId>>))
             s3 == _refreshEditorNodeId(s2, newId, pos)
         IN [st |-> [s3 EXCEPT !.memory = replaceLastItem(s3.memory, newId)],
             cur |-> newId]
    ELSE LET s1 == [s EXCEPT !.store = activateItem(s.store, nodeId)]
         IN [st |-> Log(s1, Call("activateItem", pos, nodeId, NoField, 0,
                                 NoEdits, FALSE, <<>>)),
             cur |-> nodeId]

\* Mutant: the item is not claimed for the syncing editor.
claimForEditor_skipped(s, pos, nodeId, nodeFromDifferentEditor, editorField) ==
    s

\* Line 84.
claimForEditor(s, pos, nodeId, nodeFromDifferentEditor, editorField) ==
    IF nodeFromDifferentEditor
    THEN Log([s EXCEPT !.store = setField(s.store, nodeId, editorField)],
             Call("setField", pos, nodeId, editorField, 0, NoEdits, FALSE,
                  <<>>))
    ELSE s

\* Mutant: the return after the reactivation branch is lost, so create
\* follows remove and update.
pushToRelation_fallsThrough(s, pos, nodeId, storeItemIsActive, disp) ==
    LET storeItemReactivated == ~storeItemIsActive
        storeItemNotNew == ~itemIsNew(s.store, nodeId)
        storeItem == getItem(s.store, nodeId)
        s3 == IF storeItemNotNew /\ storeItemReactivated
              THEN LET s1 == _reactivateRelatedItem(s, pos, nodeId, disp)
                   IN IF storeItem.edits.defined
                      THEN LET merged == _mergeUpdatedValues(
                                             storeItem.edits,
                                             findDisplayItem(disp, nodeId))
                               s2 == [s1 EXCEPT !.store[nodeId].edits = merged]
                           IN Log(s2, Call("update", pos, nodeId, NoField, 0,
                                           merged, FALSE, <<>>))
                      ELSE s1
              ELSE s
    IN Log(s3, Call("create", pos, nodeId, NoField, storeItem.item,
                    NoEdits, FALSE, <<>>))

\* Mutant: storeItemReactivated is read from the store after the activation.
pushToRelation_rereadsActive(s, pos, nodeId, storeItemIsActive, disp) ==
    LET storeItemReactivated == ~itemIsActive(s.store, nodeId)
        storeItemNotNew == ~itemIsNew(s.store, nodeId)
        storeItem == getItem(s.store, nodeId)
    IN IF storeItemNotNew /\ storeItemReactivated
       THEN LET s1 == _reactivateRelatedItem(s, pos, nodeId, disp)
            IN IF storeItem.edits.defined
               THEN LET merged == _mergeUpdatedValues(
                                      storeItem.edits,
                                      findDisplayItem(disp, nodeId))
                        s2 == [s1 EXCEPT !.store[nodeId].edits = merged]
                    IN Log(s2, Call("update", pos, nodeId, NoField, 0, merged,
                                    FALSE, <<>>))
               ELSE s1
       ELSE Log(s, Call("create", pos, nodeId, NoField, storeItem.item,
                        NoEdits, FALSE, <<>>))

\* Lines 86-102: undelete and update a reactivated persisted item, create
\* anything else.
pushToRelation(s, pos, nodeId, storeItemIsActive, disp) ==
    LET storeItemReactivated == ~storeItemIsActive
        storeItemNotNew == ~itemIsNew(s.store, nodeId)
        storeItem == getItem(s.store, nodeId)
    IN IF storeItemNotNew /\ storeItemReactivated
       THEN LET s1 == _reactivateRelatedItem(s, pos, nodeId, disp)
            IN IF storeItem.edits.defined
               THEN LET merged == _mergeUpdatedValues(
                                      storeItem.edits,
                                      findDisplayItem(disp, nodeId))
                        s2 == [s1 EXCEPT !.store[nodeId].edits = merged]
                    IN Log(s2, Call("update", pos, nodeId, NoField, 0, merged,
                                    FALSE, <<>>))
               ELSE s1
       ELSE Log(s, Call("create", pos, nodeId, NoField, storeItem.item,
                        NoEdits, FALSE, <<>>))

\* Lines 65-102: the node's identity has a store item.
reconcileNode(s, pos, nodeId, editorField, disp) ==
    LET storeItemIsActive == itemIsActive(s.store, nodeId)
        nodeIdIsUnique == nodeIdUniqueInEditor(s.memory, nodeId)
        s1 == [s EXCEPT !.memory = Append(@, nodeId)]
        nodeFromDifferentEditor ==
            itemFromDifferentEditor(s.store, nodeId, editorField)
    IN IF nothingChanged(storeItemIsActive, nodeIdIsUnique,
                         nodeFromDifferentEditor)
       THEN s1
       ELSE LET r == duplicateOrActivate(s1, pos, nodeId, storeItemIsActive)
                s2 == claimForEditor(r.st, pos, r.cur,
                                     nodeFromDifferentEditor, editorField)
            IN pushToRelation(s2, pos, r.cur, storeItemIsActive, disp)

\* Mutant: the identity is recorded in the memory before the store is asked.
handleNode_recordsFirst(s, pos, editorField, disp) ==
    LET nodeId == s.nodes[pos]
    IN IF ~itemExists(s.store, nodeId)
       THEN [s EXCEPT !.memory = Append(@, nodeId)]
       ELSE reconcileNode(s, pos, nodeId, editorField, disp)

\* Lines 59-63: the callback of forEach; a node whose identity has no store
\* item is left to the NodeView.
handleNode(s, pos, editorField, disp) ==
    LET nodeId == s.nodes[pos]
    IN IF ~itemExists(s.store, nodeId) THEN s
       ELSE reconcileNode(s, pos, nodeId, editorField, disp)

RECURSIVE forEachNode(_, _, _, _)
forEachNode(s, pos, editorField, disp) ==
    IF pos > Len(s.nodes) THEN s
    ELSE forEachNode(handleNode(s, pos, editorField, disp), pos + 1,
                     editorField, disp)

syncInsertedNodes(s, editorField, disp) ==
    forEachNode([s EXCEPT !.memory = <<>>], 1, editorField, disp)

\* ------------------------------------------------- syncRelationNodes
\* Mutant: insertion reconciliation runs before removal reconciliation.
syncRelationNodes_insertsFirst(s, editorField, disp) ==
    LET scanned == _getExistingEditorNodes(s)
        inserted == syncInsertedNodes(scanned, editorField, disp)
    IN syncRemovedNodes(inserted, editorField, disp)

\* Mutant: removal reconciliation is left out.
syncRelationNodes_skipsRemoval(s, editorField, disp) ==
    LET scanned == _getExistingEditorNodes(s)
    IN syncInsertedNodes(scanned, editorField, disp)

syncRelationNodes(s, editorField, disp) ==
    LET scanned == _getExistingEditorNodes(s)
        removed == syncRemovedNodes(scanned, editorField, disp)
    IN syncInsertedNodes(removed, editorField, disp)

\* ------------------------------------------------- initFetchedItems
\* The state of one call: the store, whether it was seeded, the editor's
\* document, the calls made, and how often the document was traversed.
FetchStart(store, seededAlready, docOfField) ==
    [store |-> store, seeded |-> seededAlready, doc |-> docOfField,
     calls |-> <<>>, scans |-> 0]

\* Mutant: the store is seeded without asking whether it was already.
initFetchedItems_alwaysInits(b, fetchedItems, editorField) ==
    LET b1 == Log([b EXCEPT !.store = init(b.store, fetchedItems),
                            !.seeded = TRUE],
                  Call("init", 0, 0, NoField, 0, NoEdits, FALSE,
                       SetToSeq(fetchedItems)))
        editorNodeIds == b1.doc
        b2 == [b1 EXCEPT !.scans = @ + 1,
                 !.store = setEditorFields(b1.store, editorNodeIds,
                                           editorField)]
    IN Log(b2, Call("setEditorFields", 0, 0, editorField, 0, NoEdits, FALSE,
                    editorNodeIds))

\* Lines 42-53.
initFetchedItems(b, fetchedItems, editorField) ==
    LET b1 == IF ~initialized(b.seeded, fetchedItems)
              THEN Log([b EXCEPT !.store = init(b.store, fetchedItems),
                                 !.seeded = TRUE],
                       Call("init", 0, 0, NoField, 0, NoEdits, FALSE,
                            SetToSeq(fetchedItems)))
              ELSE b
        editorNodeIds == b1.doc
        b2 == [b1 EXCEPT !.scans = @ + 1,
                 !.store = setEditorFields(b1.store, editorNodeIds,
                                           editorField)]
    IN Log(b2, Call("setEditorFields", 0, 0, editorField, 0, NoEdits, FALSE,
                    editorNodeIds))

\* ============================================================ the system
VARIABLES
    store,    \* the shared M2A store: identity -> item
    doc,      \* field -> that editor's document
    minted,   \* fresh identities handed out so far
    last,     \* the pass that just completed (none after a document edit)
    seeded,   \* the store was seeded by init
    boot,     \* the latest call of initFetchedItems
    trail     \* the cut and the passes that followed it, in order (SpecCut)

vars == <<store, doc, minted, last, seeded, boot, trail>>

\* field     the field whose pass it was (NoField: no pass just completed)
\* preStore  the store when the pass started
\* preDoc    the field's document when the pass started
\* disp      what findDisplayItem answered during the pass
\* end       the state of the pass when it returned
\* repeat    the pass before it was a pass of the same field, and nothing
\*           happened in between
\* prevBusy  that earlier pass changed the store, the document or the collection
NoPass ==
    [field |-> NoField, preStore |-> [id \in IdSpace |-> Absent],
     preDoc |-> <<>>, disp |-> <<>>,
     end |-> PassStart([id \in IdSpace |-> Absent], <<>>, 0),
     repeat |-> FALSE, prevBusy |-> FALSE]

\* The pass changed something: the store, the document, or the collection.
Busy(p) ==
    \/ p.end.store # p.preStore
    \/ p.end.patches # <<>>
    \/ \E i \in 1..Len(p.end.calls) : p.end.calls[i].op \in CollectionCalls

\* field           the field whose call it was (NoField: no call yet)
\* wasInitialized  what initialized() answered
\* preDoc          the field's document when the call started
\* end             the state of the call when it returned
\* inits           how many times init was invoked so far, over all calls
NoBoot ==
    [field |-> NoField, wasInitialized |-> FALSE, preDoc |-> <<>>,
     end |-> FetchStart([id \in IdSpace |-> Absent], FALSE, <<>>),
     inits |-> 0]

Init ==
    /\ \E base \in [BaseIds -> BOOLEAN \X BOOLEAN \X Fields \X EditsOpts] :
          store = [id \in IdSpace |->
                     IF id \in BaseIds
                     THEN [exists |-> TRUE, active |-> base[id][1],
                           isNew |-> base[id][2], field |-> base[id][3],
                           edits |-> base[id][4], item |-> id]
                     ELSE Absent]
    /\ doc = [f \in Fields |-> <<>>]
    /\ minted = 0
    /\ last = NoPass
    /\ seeded = TRUE
    /\ boot = NoBoot
    /\ trail = <<>>

\* The identities whose display item a pass of editorField looks up: those it
\* deactivates, and the persisted inactive ones its document carries.
lookedUp(editorField) ==
    {id \in IdSpace :
        /\ store[id].exists
        /\ \/ store[id].active /\ store[id].field = editorField
                               /\ id \notin Range(doc[editorField])
           \/ ~store[id].active /\ ~store[id].isNew
                                /\ id \in Range(doc[editorField])}

\* The editor of editorField emits "update": one whole pass.
Sync(editorField) ==
    \E disp \in [lookedUp(editorField) -> DisplayOpts] :
        LET end == syncRelationNodes(
                       PassStart(store, doc[editorField], minted),
                       editorField, disp)
        IN /\ end.minted <= MaxFresh
           /\ store' = end.store
           /\ doc' = [doc EXCEPT ![editorField] = end.doc]
           /\ minted' = end.minted
           /\ last' = [field |-> editorField, preStore |-> store,
                       preDoc |-> doc[editorField], disp |-> disp,
                       end |-> end,
                       repeat |-> (last.field = editorField),
                       prevBusy |-> (last.field = editorField /\ Busy(last))]

\* The user inserts a relation block: a copy or a re-insertion of a node of an
\* identity the store knows, or a block whose item is missing.
InsertNode(editorField, nodeId) ==
    /\ NodeCount(doc, Fields) < MaxNodes
    /\ nodeId \in OrphanIds \/ store[nodeId].exists
    /\ doc' = [doc EXCEPT ![editorField] = Append(@, nodeId)]
    /\ last' = NoPass
    /\ UNCHANGED <<store, minted>>

\* The user deletes a relation block.
RemoveNode(editorField, pos) ==
    /\ pos \in 1..Len(doc[editorField])
    /\ doc' = [doc EXCEPT ![editorField] =
                 SubSeq(@, 1, pos - 1) \o SubSeq(@, pos + 1, Len(@))]
    /\ last' = NoPass
    /\ UNCHANGED <<store, minted>>

Next ==
    /\ \/ \E f \in Fields : Sync(f)
       \/ \E f \in Fields, id \in Ids : InsertNode(f, id)
       \/ \E f \in Fields, pos \in 1..MaxNodes : RemoveNode(f, pos)
    /\ UNCHANGED <<seeded, boot, trail>>

Spec == Init /\ [][Next]_vars

\* One editor alone, with a longer document; the store may still hold items
\* owned by the other field.
SoloField == "F1"

InsertSolo(nodeId) ==
    /\ Len(doc[SoloField]) < MaxSolo
    /\ nodeId \in OrphanIds \/ store[nodeId].exists
    /\ doc' = [doc EXCEPT ![SoloField] = Append(@, nodeId)]
    /\ last' = NoPass
    /\ UNCHANGED <<store, minted>>

NextSolo ==
    /\ \/ Sync(SoloField)
       \/ \E id \in Ids : InsertSolo(id)
       \/ \E pos \in 1..MaxSolo : RemoveNode(SoloField, pos)
    /\ UNCHANGED <<seeded, boot, trail>>

SpecSolo == Init /\ [][NextSolo]_vars

\* ------------------------------------------------- loading the editors
\* The store is empty and unseeded; the documents are loaded with blocks that
\* reference the items to be fetched, or items that no longer exist.
InitLoad ==
    /\ store = [id \in IdSpace |-> Absent]
    /\ doc = [f \in Fields |-> <<>>]
    /\ minted = 0
    /\ last = NoPass
    /\ seeded = FALSE
    /\ boot = NoBoot
    /\ trail = <<>>

LoadNode(editorField, nodeId) ==
    /\ NodeCount(doc, Fields) < MaxNodes
    /\ doc' = [doc EXCEPT ![editorField] = Append(@, nodeId)]
    /\ UNCHANGED <<store, minted, last, seeded, boot, trail>>

\* The items of the relation arrive in the interface of editorField.
InitFetchedItems(editorField, fetchedItems) ==
    LET end == initFetchedItems(
                   FetchStart(store, seeded, doc[editorField]),
                   fetchedItems, editorField)
        seedings == Cardinality({i \in 1..Len(end.calls) :
                                    end.calls[i].op = "init"})
    IN /\ boot.inits < MaxInits
       /\ store' = end.store
       /\ seeded' = end.seeded
       /\ doc' = [doc EXCEPT ![editorField] = end.doc]
       /\ boot' = [field |-> editorField, wasInitialized |-> seeded,
                   preDoc |-> doc[editorField], end |-> end,
                   inits |-> boot.inits + seedings]
       /\ UNCHANGED <<minted, last, trail>>

NextLoad ==
    \/ \E f \in Fields, items \in SUBSET BaseIds : InitFetchedItems(f, items)
    \/ \E f \in Fields, id \in BaseIds \cup OrphanIds : LoadNode(f, id)
    \/ \E f \in Fields, pos \in 1..MaxNodes :
          RemoveNode(f, pos) /\ UNCHANGED <<seeded, boot, trail>>

SpecLoad == InitLoad /\ [][NextLoad]_vars

\* ------------------------------------------------- remove and re-insert
\* One editor whose document carries one node for each of its items, all
\* persisted and active: an item is inactive later only because a pass of the
\* editor dropped it.
InitTrip ==
    /\ \E pending \in [BaseIds -> EditsOpts] :
          store = [id \in IdSpace |->
                     IF id \in BaseIds
                     THEN [exists |-> TRUE, active |-> TRUE, isNew |-> FALSE,
                           field |-> SoloField, edits |-> pending[id],
                           item |-> id]
                     ELSE Absent]
    /\ doc = [f \in Fields |-> IF f = SoloField THEN SetToSeq(BaseIds)
                               ELSE <<>>]
    /\ minted = 0
    /\ last = NoPass
    /\ seeded = TRUE
    /\ boot = NoBoot
    /\ trail = <<>>

SpecTrip == InitTrip /\ [][NextSolo]_vars

\* ------------------------------------------------- cut and paste
\* A node of CutFrom carrying the identity of an active item of CutFrom is
\* cut and pasted into the document of CutTo; then each editor runs one pass,
\* in either order.
CutFrom == "F1"

CutTo == "F2"

CutId == CHOOSE id \in BaseIds : TRUE

InitCut ==
    /\ \E n \in BOOLEAN, e \in EditsOpts :
          store = [id \in IdSpace |->
                     IF id = CutId
                     THEN [exists |-> TRUE, active |-> TRUE, isNew |-> n,
                           field |-> CutFrom, edits |-> e, item |-> id]
                     ELSE Absent]
    /\ \E a \in {<<CutId>>} \cup {<<o, CutId>> : o \in OrphanIds}
                            \cup {<<CutId, o>> : o \in OrphanIds},
          b \in {<<>>} \cup {<<o>> : o \in OrphanIds} :
          doc = [f \in Fields |-> IF f = CutFrom THEN a
                                  ELSE IF f = CutTo THEN b ELSE <<>>]
    /\ minted = 0
    /\ last = NoPass
    /\ seeded = TRUE
    /\ boot = NoBoot
    /\ trail = <<>>

CutPaste(front) ==
    LET from == doc[CutFrom]
        p == CHOOSE i \in 1..Len(from) : from[i] = CutId
        rest == SubSeq(from, 1, p - 1) \o SubSeq(from, p + 1, Len(from))
    IN /\ trail = <<>>
       /\ doc' = [doc EXCEPT ![CutFrom] = rest,
                             ![CutTo] = IF front THEN <<CutId>> \o @
                                        ELSE Append(@, CutId)]
       /\ trail' = <<"cut">>
       /\ last' = NoPass
       /\ UNCHANGED <<store, minted, seeded, boot>>

\* The first pass of editorField after the cut.
SyncAfterCut(editorField) ==
    /\ trail # <<>>
    /\ editorField \notin Range(trail)
    /\ Sync(editorField)
    /\ trail' = Append(trail, editorField)
    /\ UNCHANGED <<seeded, boot>>

NextCut ==
    \/ \E front \in BOOLEAN : CutPaste(front)
    \/ \E f \in Fields : SyncAfterCut(f)

SpecCut == InitCut /\ [][NextCut]_vars

\* ============================================================ the claims
passDone == last.field # NoField

calls == last.end.calls

\* The calls of the pass with this operation.
CallsOf(op) == {i \in 1..Len(calls) : calls[i].op = op}

\* The positions of the document the pass started from that carry id.
PositionsOf(id) == {i \in 1..Len(last.preDoc) : last.preDoc[i] = id}

\* The identities the removal phase of the pass had to drop.
droppedByPass ==
    {id \in IdSpace : /\ last.preStore[id].exists
                      /\ last.preStore[id].active
                      /\ last.preStore[id].field = last.field
                      /\ id \notin Range(last.preDoc)}

\* C1: a pass of a field that directly follows a pass of the same field, with
\* no document change in between, mutates nothing: the store is as it was, no
\* node is patched, and no activate, duplicate, setField or collection call
\* is made.
C1_SecondPassIsNoOp ==
    last.repeat =>
        /\ last.end.store = last.preStore
        /\ last.end.doc = last.preDoc
        /\ last.end.patches = <<>>
        /\ \A i \in 1..Len(calls) : calls[i].op = "deactivateUnusedItems"

C1_Witness == last.repeat /\ last.prevBusy

\* C2 as stated: after a pass no two nodes of the document share an identity.
C2_NoSharedIdentity ==
    passDone =>
        \A i, j \in 1..Len(doc[last.field]) :
            i # j => doc[last.field][i] # doc[last.field][j]

\* C2 amended: after a pass no two nodes whose identity has a store item
\* share an identity.
C2_NoSharedStoredIdentity ==
    passDone =>
        \A i, j \in 1..Len(doc[last.field]) :
            (i # j /\ doc[last.field][i] = doc[last.field][j])
                => ~store[doc[last.field][i]].exists

C2_Witness ==
    /\ passDone
    /\ \E i, j \in 1..Len(last.preDoc) :
          /\ i # j
          /\ last.preDoc[i] = last.preDoc[j]
          /\ last.preStore[last.preDoc[i]].exists
    /\ last.end.patches # <<>>

\* C3: every identity that was active, owned by the field and carried by no
\* node when the pass started is inactive after it, with exactly one
\* deleteItem call if findDisplayItem found its record and none otherwise;
\* and deleteItem is called for no other identity.
C3_RemovalCompleteness ==
    passDone =>
        /\ \A id \in droppedByPass :
              /\ ~store[id].active
              /\ Cardinality({i \in CallsOf("deleteItem") : calls[i].id = id})
                   = IF findDisplayItem(last.disp, id).found THEN 1 ELSE 0
        /\ \A i \in 1..Len(calls) :
              calls[i].op = "deleteItem" =>
                  calls[i].id \in droppedByPass /\ calls[i].found

C3_Witness ==
    /\ passDone
    /\ \E id, other \in droppedByPass :
          /\ findDisplayItem(last.disp, id).found
          /\ ~findDisplayItem(last.disp, other).found

\* The identities the claim's scenario is about: persisted, inactive, with the
\* pending edits {a: 1}, carried by a node, and displayed as
\* {$type: "X", $index: 2}.
reactivatedWithEdits ==
    {id \in Range(last.preDoc) :
        /\ last.preStore[id].exists
        /\ ~last.preStore[id].isNew
        /\ ~last.preStore[id].active
        /\ last.preStore[id].edits = PendingA
        /\ findDisplayItem(last.disp, id) = RecX2}

\* C4: for a persisted inactive item with pending edits {a: 1} whose display
\* item reports {$type: "X", $index: 2}, the pass makes one update call with
\* the edits {a: 1, $type: "X", $index: 2} and no create call for the
\* identity; and the edits of every update call keep the pending value of a.
C4_ReactivationMerge ==
    passDone =>
        /\ \A id \in reactivatedWithEdits :
              /\ Cardinality({i \in CallsOf("update") : calls[i].id = id}) = 1
              /\ \A i \in 1..Len(calls) :
                    /\ (calls[i].op = "update" /\ calls[i].id = id) =>
                           calls[i].edits =
                               [defined |-> TRUE, a |-> "1", type |-> "X",
                                index |-> "2", edits |-> Undefined]
                    /\ calls[i].op = "create" => calls[i].id # id
        /\ \A i \in 1..Len(calls) :
              calls[i].op = "update" =>
                  /\ calls[i].edits.defined
                  /\ calls[i].edits.a = last.preStore[calls[i].id].edits.a

C4_Witness == passDone /\ reactivatedWithEdits # {}

\* The identities carried by a node of the syncing field's document whose
\* item is active and owned by another field.
liveInOtherField ==
    {id \in Range(last.preDoc) :
        /\ last.preStore[id].exists
        /\ last.preStore[id].active
        /\ last.preStore[id].field # last.field}

\* C5 as stated: an active item owned by another field whose identity a node
\* of the syncing field carries is owned by the syncing field after the pass,
\* and setField was invoked for it with the syncing field.
C5_OwnershipMoves ==
    passDone =>
        \A id \in liveInOtherField :
            /\ store[id].field = last.field
            /\ \E i \in 1..Len(calls) :
                  /\ calls[i].op = "setField"
                  /\ calls[i].id = id
                  /\ calls[i].field = last.field

\* C5 amended: such an item stays as it was, active and owned by the other
\* field; every node carrying its identity is patched to a fresh identity
\* whose item is active and owned by the syncing field, and setField is
\* invoked for the fresh identity with the syncing field, never for the
\* original.
C5_OwnershipForks ==
    passDone =>
        \A id \in liveInOtherField :
            /\ store[id] = last.preStore[id]
            /\ \A i \in 1..Len(calls) :
                  calls[i].op = "setField" => calls[i].id # id
            /\ \A p \in PositionsOf(id) :
                  LET fresh == doc[last.field][p]
                  IN /\ fresh # id
                     /\ ~last.preStore[fresh].exists
                     /\ store[fresh].exists
                     /\ store[fresh].active
                     /\ store[fresh].field = last.field
                     /\ \E i \in 1..Len(calls) :
                           /\ calls[i].op = "setField"
                           /\ calls[i].node = p
                           /\ calls[i].id = fresh
                           /\ calls[i].field = last.field

C5_Witness == passDone /\ liveInOtherField # {}

\* The identities that are active, owned by the syncing field and carried by
\* two or more nodes of its document.
repeatedInDocument ==
    {id \in Range(last.preDoc) :
        /\ last.preStore[id].exists
        /\ last.preStore[id].active
        /\ last.preStore[id].field = last.field
        /\ Cardinality(PositionsOf(id)) >= 2}

FirstOf(id) == CHOOSE p \in PositionsOf(id) : \A q \in PositionsOf(id) : p <= q

\* C6: for an active identity of the field carried by k >= 2 nodes, the first
\* node keeps it, each later node carries a fresh identity of its own, one
\* create call is made for each later node with the data of its fresh store
\* item (k-1 in all), and no create, update or remove call is made for the
\* original identity.
C6_DuplicateInDocument ==
    passDone =>
        \A id \in repeatedInDocument :
            LET later == PositionsOf(id) \ {FirstOf(id)}
                now == doc[last.field]
            IN /\ now[FirstOf(id)] = id
               /\ \A q \in later :
                     /\ now[q] # id
                     /\ ~last.preStore[now[q]].exists
                     /\ store[now[q]].exists
                     /\ \A r \in later : r # q => now[r] # now[q]
                     /\ Cardinality({i \in CallsOf("create") : calls[i].node = q}) = 1
                     /\ \A i \in 1..Len(calls) :
                           (calls[i].op = "create" /\ calls[i].node = q) =>
                               /\ calls[i].id = now[q]
                               /\ calls[i].item = store[now[q]].item
               /\ Cardinality({i \in CallsOf("create") : calls[i].id \in {now[q] : q \in later}})
                    = Cardinality(PositionsOf(id)) - 1
               /\ \A i \in 1..Len(calls) :
                     calls[i].op \in {"create", "update", "remove"} =>
                         calls[i].id # id

C6_Witness ==
    /\ passDone
    /\ \E id \in repeatedInDocument : Cardinality(PositionsOf(id)) >= 3

\* The positions whose node carries an identity without a store item.
orphanPositions ==
    {p \in 1..Len(last.preDoc) : ~last.preStore[last.preDoc[p]].exists}

\* C7: a node whose identity has no store item is not patched, causes no
\* store or collection call and is not recorded in the identity memory; and
\* when it is the only node and the field owns no active item, the pass leaves
\* the store as it was and makes no collection call.
C7_OrphanSkipped ==
    passDone =>
        /\ \A p \in orphanPositions :
              /\ doc[last.field][p] = last.preDoc[p]
              /\ last.end.nodes[p] = last.preDoc[p]
              /\ \A i \in 1..Len(calls) : calls[i].node # p
              /\ \A k \in 1..Len(last.end.patches) :
                    last.end.patches[k].pos # p
              /\ last.preDoc[p] \notin Range(last.end.memory)
        /\ ( /\ Len(last.preDoc) = 1
             /\ orphanPositions = {1}
             /\ \A id \in IdSpace :
                   ~(last.preStore[id].active
                     /\ last.preStore[id].field = last.field) )
           => /\ store = last.preStore
              /\ doc[last.field] = last.preDoc
              /\ \A i \in 1..Len(calls) :
                    calls[i].op = "deactivateUnusedItems"

C7_Witness ==
    /\ passDone
    /\ orphanPositions # {}
    /\ \E i \in 1..Len(calls) : calls[i].node \notin orphanPositions \cup {0}

RemovalOps == {"deactivateUnusedItems", "deleteItem"}

InsertionOps == {"activateItem", "duplicateItem", "setField", "create",
                 "remove", "update"}

\* C9: a pass traverses the document once; every call of removal
\* reconciliation (deactivateUnusedItems, deleteItem) precedes every call of
\* insertion reconciliation; and both phases work on the identities the
\* document had when the pass started.
C9_RemovalBeforeInsertion ==
    passDone =>
        /\ last.end.scans = 1
        /\ Len(last.end.nodes) = Len(last.preDoc)
        /\ \A i, j \in 1..Len(calls) :
              i < j => ~(calls[i].op \in InsertionOps
                         /\ calls[j].op \in RemovalOps)
        /\ \A i \in 1..Len(calls) :
              /\ calls[i].op = "deactivateUnusedItems" =>
                     calls[i].ids = last.preDoc
              /\ calls[i].op \in {"activateItem", "duplicateItem"} =>
                     calls[i].id = last.preDoc[calls[i].node]

C9_Witness ==
    /\ passDone
    /\ last.end.patches # <<>>
    /\ \E i, j \in 1..Len(calls) :
          calls[i].op = "deleteItem" /\ calls[j].op \in InsertionOps

\* C10: every transaction a pass dispatches is kept out of the undo history
\* and emits no update, so no pass starts inside a pass; after it the node at
\* the patched position carries the new identity both in the document and in
\* the node object the pass holds; and the document changes in no other way.
C10_IdentityPatchContract ==
    passDone =>
        /\ \A k \in 1..Len(last.end.patches) :
              LET tr == last.end.patches[k]
              IN /\ ~tr.addToHistory
                 /\ tr.preventUpdate
                 /\ doc[last.field][tr.pos] = tr.id
                 /\ last.end.nodes[tr.pos] = tr.id
        /\ last.end.undo = 0
        /\ last.end.updates = 0
        /\ \A p \in 1..Len(last.preDoc) :
              doc[last.field][p] # last.preDoc[p] =>
                  \E k \in 1..Len(last.end.patches) :
                      last.end.patches[k].pos = p

C10_Witness == passDone /\ last.end.patches # <<>>

bootDone == boot.field # NoField

bootCalls == boot.end.calls

\* C11: over any sequence of initFetchedItems calls of any fields, init is
\* invoked only by a call that found the store not initialized, hence once at
\* most; every call, seeding or not, ends with one setEditorFields of the
\* identities of the nodes of its editor's document and its editor's field;
\* and no call changes the document or calls the relation collection.
C11_SeedOnceThenClaim ==
    /\ boot.inits <= 1
    /\ bootDone =>
          /\ \A i \in 1..Len(bootCalls) :
                /\ bootCalls[i].op = "init" => ~boot.wasInitialized
                /\ bootCalls[i].op \notin CollectionCalls
          /\ Cardinality({i \in 1..Len(bootCalls) :
                             bootCalls[i].op = "setEditorFields"}) = 1
          /\ bootCalls[Len(bootCalls)].op = "setEditorFields"
          /\ bootCalls[Len(bootCalls)].ids = boot.preDoc
          /\ bootCalls[Len(bootCalls)].field = boot.field
          /\ boot.end.doc = boot.preDoc
          /\ \A id \in Range(boot.preDoc) :
                boot.end.store[id].exists =>
                    boot.end.store[id].field = boot.field

C11_Witness ==
    /\ bootDone
    /\ boot.wasInitialized
    /\ boot.inits = 1
    /\ \E id \in Range(boot.preDoc) :
          boot.end.store[id].exists /\ boot.end.store[id].field = boot.field

\* C12: a missing display item is a no-op in every phase: the pass makes no
\* deleteItem call and no remove call for an identity whose record
\* findDisplayItem did not find.
C12_MissingRecordNoCall ==
    passDone =>
        \A i \in 1..Len(calls) :
            calls[i].op \in {"deleteItem", "remove"} => calls[i].found

\* The identities with a store item that a node of the document carries.
storedInDocument ==
    {id \in Range(last.preDoc) : last.preStore[id].exists}

\* C13 as stated: whatever the classification of the item, the first node
\* carrying its identity keeps it and every later node is re-identified.
C13_FirstOccurrenceWins ==
    passDone =>
        \A id \in storedInDocument :
            /\ doc[last.field][FirstOf(id)] = id
            /\ \A q \in PositionsOf(id) \ {FirstOf(id)} :
                  doc[last.field][q] # id

\* C13 amended: the first node carrying the identity keeps it unless the item
\* is active and owned by another field, and then the first node is
\* re-identified too; every later node is re-identified to a fresh identity
\* with a store item, in every case.
C13_FirstWinsUnlessForeign ==
    passDone =>
        \A id \in storedInDocument :
            LET now == doc[last.field]
            IN /\ (now[FirstOf(id)] = id) <=> (id \notin liveInOtherField)
               /\ \A q \in PositionsOf(id) \ {FirstOf(id)} :
                     /\ now[q] # id
                     /\ ~last.preStore[now[q]].exists
                     /\ store[now[q]].exists

C13_Witness ==
    /\ passDone
    /\ \E id \in liveInOtherField : Cardinality(PositionsOf(id)) >= 2

\* C14: every node handled by the duplicate branch (the item is active when
\* the node is classified, and the identity is a repeat or the item is owned
\* by another field) causes exactly one create call, with the identity and
\* the data of the fresh store item, and no remove or update call, whether the
\* original item is new or persisted.
C14_DuplicateOnlyCreates ==
    passDone =>
        /\ \A d \in CallsOf("duplicateItem") :
              LET p == calls[d].node
                  fresh == calls[d].ids[1]
              IN /\ Cardinality({i \in CallsOf("create") : calls[i].node = p}) = 1
                 /\ \A i \in 1..Len(calls) :
                       calls[i].node = p =>
                           /\ calls[i].op \notin {"remove", "update"}
                           /\ calls[i].op = "create" =>
                                  /\ calls[i].id = fresh
                                  /\ calls[i].item = store[fresh].item
        /\ \A id \in storedInDocument :
              \A p \in PositionsOf(id) :
                  (p # FirstOf(id) \/ id \in liveInOtherField) =>
                      \E d \in CallsOf("duplicateItem") :
                          calls[d].node = p /\ calls[d].id = id

C14_Witness ==
    /\ passDone
    /\ \E d \in CallsOf("duplicateItem") :
          /\ ~last.preStore[calls[d].id].isNew
          /\ last.preStore[calls[d].id].edits.defined

\* The operations of the collection calls made for the node at position p,
\* in the order made.
CollectionOpsAt(p) ==
    LET ForNode(c) == c.node = p /\ c.op \in CollectionCalls
        made == SelectSeq(calls, ForNode)
    IN [i \in 1..Len(made) |-> made[i].op]

ActivatedAt(p) == \E i \in CallsOf("activateItem") : calls[i].node = p

DuplicatedAt(p) == \E i \in CallsOf("duplicateItem") : calls[i].node = p

\* C15: for a node whose identity has a store item the collection calls are
\* exactly one of: none (the item is active, the identity a first occurrence
\* and the owner the syncing field); remove, then one update if the item has
\* pending edits, and nothing else (the item is persisted and was inactive
\* when the node was classified); or one create (a duplicate, or an inactive
\* item that is new).  remove precedes update and create is never combined
\* with either.
C15_ExclusiveOutcome ==
    passDone =>
        \A p \in 1..Len(last.preDoc) :
            LET id == last.preDoc[p]
                ops == CollectionOpsAt(p)
                persisted == ~last.preStore[id].isNew
            IN last.preStore[id].exists =>
                /\ ops \in {<<>>, <<"remove">>, <<"remove", "update">>,
                            <<"create">>}
                /\ (ops = <<>>) <=> (~ActivatedAt(p) /\ ~DuplicatedAt(p))
                /\ (ops = <<"create">>) <=>
                       (DuplicatedAt(p) \/ (ActivatedAt(p) /\ ~persisted))
                /\ (ops = <<"remove", "update">>) <=>
                       (ActivatedAt(p) /\ persisted
                        /\ last.preStore[id].edits.defined)
                /\ ( /\ p = FirstOf(id)
                     /\ last.preStore[id].active
                     /\ last.preStore[id].field = last.field ) => ops = <<>>
                /\ ( /\ p = FirstOf(id)
                     /\ ~last.preStore[id].active ) => ActivatedAt(p)

C15_Witness ==
    /\ passDone
    /\ \E p, q \in 1..Len(last.preDoc) :
          /\ CollectionOpsAt(p) = <<"remove", "update">>
          /\ CollectionOpsAt(q) = <<"create">>

\* The persisted items of the syncing field that are inactive when the pass
\* starts and whose identity a node of its document carries.
reinserted ==
    {id \in storedInDocument :
        /\ ~last.preStore[id].isNew
        /\ ~last.preStore[id].active
        /\ last.preStore[id].field = last.field}

\* C16: a persisted item of the field whose node was removed is deactivated
\* by the next pass, with a deleteItem call for its record; after a node with
\* its identity is inserted again, the pass activates the same store item,
\* makes a remove call for its record and no create call, and the node keeps
\* the identity.  (The calls are for the record the collection holds.)
C16_RemoveThenReinsert ==
    passDone =>
        /\ \A id \in droppedByPass :
              ~last.preStore[id].isNew =>
                  /\ ~store[id].active
                  /\ findDisplayItem(last.disp, id).found =>
                        Cardinality({i \in CallsOf("deleteItem") :
                                        calls[i].id = id}) = 1
        /\ \A id \in reinserted :
              LET p == FirstOf(id)
              IN /\ doc[last.field][p] = id
                 /\ store[id].active
                 /\ store[id].field = last.field
                 /\ store[id].item = last.preStore[id].item
                 /\ ActivatedAt(p)
                 /\ ~DuplicatedAt(p)
                 /\ findDisplayItem(last.disp, id).found =>
                       Cardinality({i \in CallsOf("remove") :
                                       /\ calls[i].id = id
                                       /\ calls[i].node = p
                                       /\ calls[i].found}) = 1
                 /\ \A i \in CallsOf("create") :
                       calls[i].id # id /\ calls[i].node # p

C16_Witness ==
    /\ passDone
    /\ \E id \in reinserted :
          /\ Cardinality(PositionsOf(id)) = 1
          /\ findDisplayItem(last.disp, id).found

\* The inactive items of another field whose identity exactly one node of the
\* syncing field's document carries.
movedIn ==
    {id \in storedInDocument :
        /\ ~last.preStore[id].active
        /\ last.preStore[id].field # last.field
        /\ Cardinality(PositionsOf(id)) = 1}

\* C17: an inactive item of another field whose identity one node of the
\* syncing field carries is active and owned by the syncing field after the
\* pass, setField having been called with its identity and that field; the
\* node keeps the identity and no duplicate of the item is made.
C17_InactiveItemMoves ==
    passDone =>
        \A id \in movedIn :
            LET p == FirstOf(id)
            IN /\ doc[last.field][p] = id
               /\ store[id].active
               /\ store[id].field = last.field
               /\ \E i \in CallsOf("setField") :
                     /\ calls[i].id = id
                     /\ calls[i].field = last.field
               /\ \A d \in CallsOf("duplicateItem") :
                     calls[d].id # id /\ calls[d].node # p

C17_Witness == passDone /\ movedIn # {}

\* C18: after a pass of a field, the store items that are active and owned by
\* the field are exactly those whose identity a node of the field's document
\* carries.
C18_DocumentStoreAgreement ==
    passDone =>
        {id \in IdSpace : /\ store[id].exists
                          /\ store[id].active
                          /\ store[id].field = last.field}
          = {id \in Range(doc[last.field]) : store[id].exists}

C18_Witness ==
    /\ passDone
    /\ droppedByPass # {}
    /\ \E id \in Range(doc[last.field]) :
          store[id].exists /\ ~last.preStore[id].active

\* The items that are active and owned by a field other than the syncing one
\* when the pass starts.
foreignLive ==
    {id \in IdSpace : /\ last.preStore[id].exists
                      /\ last.preStore[id].active
                      /\ last.preStore[id].field # last.field}

\* C19: a pass leaves every item that is active and owned by another field as
\* it was (active, same owner) and makes no deleteItem, remove or update call
\* (nor an activateItem or setField call) for it, even when nodes of the
\* syncing field carry its identity.
C19_ForeignItemsUntouched ==
    passDone =>
        \A id \in foreignLive :
            /\ store[id] = last.preStore[id]
            /\ \A i \in 1..Len(calls) :
                  calls[i].op \in {"deleteItem", "remove", "update",
                                   "activateItem", "setField"}
                      => calls[i].id # id

C19_Witness ==
    /\ passDone
    /\ droppedByPass # {}
    /\ foreignLive \cap Range(last.preDoc) # {}

bothSynced == Len(trail) = 3

\* The position of the pasted node in the document of CutTo.
pastedPos ==
    CHOOSE p \in 1..Len(doc[CutTo]) : doc[CutTo][p] \notin OrphanIds

\* C20: after the cut and one pass of each editor, in either order, the
\* pasted node references an active item owned by CutTo and CutFrom owns no
\* active item; the node keeps the cut identity exactly when the pass of
\* CutFrom ran first, and otherwise carries a fresh duplicate while the cut
\* item is inactive, dropped by the pass of CutFrom with a deleteItem call for
\* its record (if the collection holds one).
C20_CutAndPaste ==
    bothSynced =>
        LET n == doc[CutTo][pastedPos]
        IN /\ store[n].exists
           /\ store[n].active
           /\ store[n].field = CutTo
           /\ \A id \in IdSpace :
                 ~(store[id].exists /\ store[id].active
                   /\ store[id].field = CutFrom)
           /\ (n = CutId) <=> (trail[2] = CutFrom)
           /\ trail[2] = CutTo =>
                 /\ n \notin BaseIds
                 /\ store[n].isNew
                 /\ ~store[CutId].active
                 /\ store[CutId].field = CutFrom
                 /\ last.field = CutFrom
                 /\ CutId \in droppedByPass
                 /\ Cardinality({i \in CallsOf("deleteItem") :
                                    calls[i].id = CutId})
                      = IF findDisplayItem(last.disp, CutId).found
                        THEN 1 ELSE 0

C20_Witness ==
    /\ bothSynced
    /\ trail[2] = CutTo
    /\ findDisplayItem(last.disp, CutId).found

====
